---- MODULE Spec2Model ----
(***************************************************************************)
(* Model of Image_Transformer.py: class Transformer.                       *)
(*                                                                         *)
(* run() is a single thread of control: classify_pixels, then              *)
(* get_random_pixel_mappings, then mutate() until converged, then          *)
(* generate_frames.  pc is the position of that thread.  Loops whose body  *)
(* draws a random number are modelled one iteration per step, the random   *)
(* draw being the step's nondeterministic input.                           *)
(*                                                                         *)
(* Python lists of lists are modelled with an explicit heap: `cells` maps  *)
(* the identity of each inner [in_pix, out_pix] list to its contents, and  *)
(* self.pairings / new_pairings are sequences of such identities, so that  *)
(* list(self.pairings) (a shallow copy) and copy.deepcopy differ.          *)
(***************************************************************************)
EXTENDS Integers, Sequences, FiniteSets, TLC

(* ------------------------------ bounds --------------------------------- *)

\* population_size is drawn from 1..MaxPopulation
MaxPopulation == 3
\* number_of_frames is drawn from 1..MaxFrames (SpecFrames)
MaxFrames == 11
\* convergence_threshold is drawn from 1..MaxThreshold
MaxThreshold == 2
\* float scores are kept in fixed point, Scale units to 1.0
Scale == 1024

(* --------------------------- program constants ------------------------- *)

white_threshold == 224

\* pixel coordinates (row, column) of the images; both images have this size
Grid == (0 .. 1) \X (0 .. 1)
\* the channel mean of a colored pixel and of a white one
Level == [dark |-> 40, white |-> 255]
\* mutation_rate, and the values of random.random(), in hundredths
MutationRates == {0, 1}
RandomValues == {0, 50}

(* ------------------------------ state ---------------------------------- *)

VARIABLES
    np_im1, np_im2,            \* the two images: Grid -> channel mean
    population_size, mutation_rate, convergence_threshold, number_of_frames,
    converged, same_score_count, generation_count,
    im1_wherecolored, im2_wherecolored,
    im1_colored_pixel_count, im2_colored_pixel_count, relationship,
    in_pixels, out_pixels,     \* the builder's pools
    cells, pairings,           \* heap of inner lists, self.pairings
    higher_number, higher_number_count, higher_numbers_placed,
    pix, i, n_outer, j, jmax,  \* loop variables of the running method
    best_score, last_best_score,
    population, new_pairings, c,
    frames, f,                 \* files written to frames/, frame index
    pc, error

cfgvars == <<np_im1, np_im2, population_size, mutation_rate,
             convergence_threshold, number_of_frames>>
classvars == <<im1_wherecolored, im2_wherecolored, im1_colored_pixel_count,
               im2_colored_pixel_count, relationship>>
buildvars == <<in_pixels, out_pixels, higher_number, higher_number_count,
               higher_numbers_placed, pix, n_outer, j, jmax>>
optvars == <<converged, same_score_count, generation_count, best_score,
             last_best_score>>
mutvars == <<population, new_pairings, c>>
framevars == <<frames, f>>

vars == <<cfgvars, classvars, buildvars, optvars, mutvars, framevars,
          cells, pairings, i, pc, error>>

(* ------------------------------ helpers -------------------------------- *)

\* row-major order of np.argwhere
Before(p, q) == p[1] < q[1] \/ (p[1] = q[1] /\ p[2] < q[2])

\* the number of grid pixels before p in row-major order
Rank(p) == Cardinality({q \in Grid : Before(q, p)})

\* The input images.  Each has at least one white pixel.  The first image
\* colors the first k pixels of the grid, the second one the last k pixels.
Images1 == {[p \in Grid |-> IF Rank(p) < k THEN Level.dark ELSE Level.white] :
               k \in 0 .. Cardinality(Grid) - 1}
Images2 == {[p \in Grid |-> IF Rank(p) >= Cardinality(Grid) - k
                            THEN Level.dark ELSE Level.white] :
               k \in 0 .. Cardinality(Grid) - 1}

\* Python list.pop(k), 0-based, on a list that has index k
Pop(list, k) == [n \in 1 .. Len(list) - 1 |->
                    IF n <= k THEN list[n] ELSE list[n + 1]]

RECURSIVE argwhere(_)
argwhere(mask) ==
    IF mask = {} THEN <<>>
    ELSE LET p == CHOOSE p \in mask : \A q \in mask \ {p} : Before(p, q)
         IN  <<p>> \o argwhere(mask \ {p})

\* numpy integer // and % : a zero divisor gives 0 (and a RuntimeWarning)
np_floor_divide(a, b) == IF b = 0 THEN 0 ELSE a \div b
np_remainder(a, b) == IF b = 0 THEN 0 ELSE a % b

\* floor of the square root
RECURSIVE ISqrt(_)
ISqrt(x) ==
    IF x < 2 THEN x
    ELSE LET s == 2 * ISqrt(x \div 4)
         IN  IF (s + 1) * (s + 1) <= x THEN s + 1 ELSE s

\* the squared distances between two pixels of the grid
Squares == {(p[1] - q[1]) * (p[1] - q[1]) + (p[2] - q[2]) * (p[2] - q[2]) :
               p \in Grid, q \in Grid}

\* x**.5 in fixed point, for the squared distances
Root == [x \in Squares |-> ISqrt(x * Scale * Scale)]

\* lines 143-145: (delta_x**2+delta_y**2)**.5
distance(pair) ==
    LET delta_x == pair[2][1] - pair[1][1]
        delta_y == pair[2][2] - pair[1][2]
    IN  Root[delta_x * delta_x + delta_y * delta_y]

RECURSIVE get_score(_)
get_score(prs) ==
    IF prs = <<>> THEN 0
    ELSE get_score(SubSeq(prs, 1, Len(prs) - 1)) + distance(prs[Len(prs)])

\* the contents of a list of inner lists: what copy.deepcopy copies
Deref(heap, refs) == [n \in 1 .. Len(refs) |-> heap[refs[n]]]

\* a fresh heap holding the inner lists of a deep copy
Fresh(prs) == [n \in 1 .. Len(prs) |-> prs[n]]
Refs(prs) == [n \in 1 .. Len(prs) |-> n]

(* ------------------------------- Init ---------------------------------- *)

\* __init__ (lines 43-54), with the configuration drawn from the given sets
InitWith(sizes, rates, thresholds, frame_counts) ==
    /\ np_im1 \in Images1
    /\ np_im2 \in Images2
    /\ population_size \in sizes
    /\ mutation_rate \in rates
    /\ convergence_threshold \in thresholds
    /\ number_of_frames \in frame_counts
    /\ converged = FALSE
    /\ same_score_count = 0
    /\ generation_count = 0
    /\ im1_wherecolored = {}
    /\ im2_wherecolored = {}
    /\ im1_colored_pixel_count = 0
    /\ im2_colored_pixel_count = 0
    /\ relationship = "none"
    /\ in_pixels = <<>>
    /\ out_pixels = <<>>
    /\ cells = <<>>
    /\ pairings = <<>>
    /\ higher_number = 0
    /\ higher_number_count = 0
    /\ higher_numbers_placed = 0
    /\ pix = <<>>
    /\ i = 0
    /\ j = 0
    /\ jmax = 0
    /\ n_outer = 0
    /\ best_score = 0
    /\ last_best_score = 0
    /\ population = <<>>
    /\ new_pairings = <<>>
    /\ c = 0
    /\ frames = <<>>
    /\ f = 0
    /\ pc = "classify_pixels"
    /\ error = "none"

(* --------------------------- classify_pixels --------------------------- *)

wherecolored(im) == {p \in Grid : im[p] < white_threshold}

Relationship(n1, n2) ==
    IF n1 = n2 THEN "one to one"
    ELSE IF n1 > n2 THEN "many to one"
    ELSE "one to many"

classify_pixels ==
    /\ pc = "classify_pixels"
    /\ im1_wherecolored' = wherecolored(np_im1)
    /\ im2_wherecolored' = wherecolored(np_im2)
    /\ im1_colored_pixel_count' = Cardinality(wherecolored(np_im1))
    /\ im2_colored_pixel_count' = Cardinality(wherecolored(np_im2))
    /\ relationship' = Relationship(Cardinality(wherecolored(np_im1)),
                                    Cardinality(wherecolored(np_im2)))
    /\ pc' = "get_random_pixel_mappings"
    /\ UNCHANGED <<cfgvars, buildvars, optvars, mutvars, framevars,
                   cells, pairings, i, error>>

(* ---------------------- get_random_pixel_mappings ---------------------- *)

\* lines 93-97 and the head of the branch taken (105-107, 122-124)
BuildBegin ==
    /\ pc = "get_random_pixel_mappings"
    /\ in_pixels' = argwhere(im1_wherecolored)
    /\ out_pixels' = argwhere(im2_wherecolored)
    /\ pairings' = <<>>
    /\ cells' = <<>>
    /\ i' = 0
    /\ j' = 0
    /\ jmax' = 0
    /\ pix' = <<>>
    /\ higher_numbers_placed' = 0
    /\ IF relationship = "one to one"
       THEN /\ n_outer' = Len(argwhere(im1_wherecolored))
            /\ pc' = "one_to_one"
            /\ UNCHANGED <<higher_number, higher_number_count>>
       ELSE IF relationship = "many to one"
       THEN /\ higher_number' = np_floor_divide(im1_colored_pixel_count,
                                                im2_colored_pixel_count) + 1
            /\ higher_number_count' = np_remainder(im1_colored_pixel_count,
                                                   im2_colored_pixel_count)
            /\ n_outer' = Len(argwhere(im2_wherecolored))
            /\ pc' = "many_to_one"
       ELSE /\ higher_number' = np_floor_divide(im2_colored_pixel_count,
                                                im1_colored_pixel_count) + 1
            /\ higher_number_count' = np_remainder(im2_colored_pixel_count,
                                                   im1_colored_pixel_count)
            /\ n_outer' = Len(argwhere(im1_wherecolored))
            /\ pc' = "one_to_many"
    /\ UNCHANGED <<cfgvars, classvars, optvars, mutvars, framevars, error>>

\* an uncaught exception ends run()
Raise(name) ==
    /\ pc' = "raised"
    /\ error' = name

\* self.pairings.append([a, b]): a new inner list
AppendPair(a, b) ==
    /\ cells' = Append(cells, <<a, b>>)
    /\ pairings' = Append(pairings, Len(cells) + 1)

\* lines 99-103, one iteration of  for i in range(len(in_pixels))
OneToOneStep ==
    /\ pc = "one_to_one"
    /\ i < n_outer
    /\ IF i >= Len(in_pixels)
       THEN /\ Raise("IndexError")
            /\ UNCHANGED <<in_pixels, out_pixels, cells, pairings, i>>
       ELSE IF Len(out_pixels) = 0
       THEN /\ Raise("ValueError")
            /\ in_pixels' = Pop(in_pixels, i)
            /\ UNCHANGED <<out_pixels, cells, pairings, i>>
       ELSE \E out_pix_index \in 0 .. Len(out_pixels) - 1 :
            /\ in_pixels' = Pop(in_pixels, i)
            /\ out_pixels' = Pop(out_pixels, out_pix_index)
            /\ AppendPair(in_pixels[i + 1], out_pixels[out_pix_index + 1])
            /\ i' = i + 1
            /\ UNCHANGED <<pc, error>>
    /\ UNCHANGED <<cfgvars, classvars, optvars, mutvars, framevars,
                   higher_number, higher_number_count, higher_numbers_placed,
                   pix, n_outer, j, jmax>>

\* mutant: the remainder is not handed out (every pixel takes the else branch)
ShareWithoutRemainder(placed) == higher_number - 1

\* the number of entries the current smaller-set pixel receives (110, 127)
Share(placed) ==
    IF placed < higher_number_count THEN higher_number ELSE higher_number - 1

\* lines 108-110, 116-117: one iteration of  for i in range(len(out_pixels))
ManyToOneOuter ==
    /\ pc = "many_to_one"
    /\ i < n_outer
    /\ IF Len(out_pixels) = 0
       THEN /\ Raise("IndexError")
            /\ UNCHANGED <<out_pixels, pix, i, j, jmax>>
       ELSE /\ pix' = out_pixels[1]
            /\ out_pixels' = Pop(out_pixels, 0)
            /\ j' = 0
            /\ jmax' = Share(higher_numbers_placed)
            /\ IF Share(higher_numbers_placed) = 0
               THEN i' = i + 1 /\ pc' = "many_to_one"
               ELSE i' = i /\ pc' = "many_to_one_inner"
            /\ UNCHANGED error
    /\ UNCHANGED <<cfgvars, classvars, optvars, mutvars, framevars,
                   in_pixels, cells, pairings, higher_number,
                   higher_number_count, higher_numbers_placed, n_outer>>

\* lines 111-115, 117-120: one iteration of  for j in range(...)
ManyToOneInner ==
    /\ pc = "many_to_one_inner"
    /\ j < jmax
    /\ IF Len(in_pixels) = 0
       THEN /\ Raise("ValueError")
            /\ UNCHANGED <<in_pixels, cells, pairings, i, j,
                           higher_numbers_placed>>
       ELSE \E in_pix_index \in 0 .. Len(in_pixels) - 1 :
            /\ in_pixels' = Pop(in_pixels, in_pix_index)
            /\ AppendPair(in_pixels[in_pix_index + 1], pix)
            /\ j' = j + 1
            /\ IF j + 1 = jmax
               THEN /\ higher_numbers_placed' =
                          IF higher_numbers_placed < higher_number_count
                          THEN higher_numbers_placed + 1
                          ELSE higher_numbers_placed
                    /\ i' = i + 1
                    /\ pc' = "many_to_one"
               ELSE UNCHANGED <<higher_numbers_placed, i, pc>>
            /\ UNCHANGED error
    /\ UNCHANGED <<cfgvars, classvars, optvars, mutvars, framevars,
                   out_pixels, higher_number, higher_number_count, pix,
                   n_outer, jmax>>

\* lines 125-127, 133-134: one iteration of  for i in range(len(in_pixels))
OneToManyOuter ==
    /\ pc = "one_to_many"
    /\ i < n_outer
    /\ IF Len(in_pixels) = 0
       THEN /\ Raise("IndexError")
            /\ UNCHANGED <<in_pixels, pix, i, j, jmax>>
       ELSE /\ pix' = in_pixels[1]
            /\ in_pixels' = Pop(in_pixels, 0)
            /\ j' = 0
            /\ jmax' = Share(higher_numbers_placed)
            /\ IF Share(higher_numbers_placed) = 0
               THEN i' = i + 1 /\ pc' = "one_to_many"
               ELSE i' = i /\ pc' = "one_to_many_inner"
            /\ UNCHANGED error
    /\ UNCHANGED <<cfgvars, classvars, optvars, mutvars, framevars,
                   out_pixels, cells, pairings, higher_number,
                   higher_number_count, higher_numbers_placed, n_outer>>

\* lines 128-132, 134-137: one iteration of  for j in range(...)
OneToManyInner ==
    /\ pc = "one_to_many_inner"
    /\ j < jmax
    /\ IF Len(out_pixels) = 0
       THEN /\ Raise("ValueError")
            /\ UNCHANGED <<out_pixels, cells, pairings, i, j,
                           higher_numbers_placed>>
       ELSE \E out_pix_outdex \in 0 .. Len(out_pixels) - 1 :
            /\ out_pixels' = Pop(out_pixels, out_pix_outdex)
            /\ AppendPair(pix, out_pixels[out_pix_outdex + 1])
            /\ j' = j + 1
            /\ IF j + 1 = jmax
               THEN /\ higher_numbers_placed' =
                          IF higher_numbers_placed < higher_number_count
                          THEN higher_numbers_placed + 1
                          ELSE higher_numbers_placed
                    /\ i' = i + 1
                    /\ pc' = "one_to_many"
               ELSE UNCHANGED <<higher_numbers_placed, i, pc>>
            /\ UNCHANGED error
    /\ UNCHANGED <<cfgvars, classvars, optvars, mutvars, framevars,
                   in_pixels, higher_number, higher_number_count, pix,
                   n_outer, jmax>>

\* lines 138-139: the loop of the branch taken is over, the builder returns
BuildFinish ==
    /\ pc \in {"one_to_one", "many_to_one", "one_to_many"}
    /\ i = n_outer
    /\ best_score' = get_score(Deref(cells, pairings))
    /\ last_best_score' = get_score(Deref(cells, pairings))
    /\ pc' = "run"
    /\ UNCHANGED <<cfgvars, classvars, buildvars, mutvars, framevars,
                   converged, same_score_count, generation_count,
                   cells, pairings, i, error>>

(* ------------------------------- mutate -------------------------------- *)

\* line 154: random.random() < self.mutation_rate
Mutates(r) == r < mutation_rate

\* lines 156, 160: which endpoint of an entry a swap exchanges (1 source, 2 target)
Endpoint(rel) == IF rel \in {"one to many", "one to one"} THEN 2 ELSE 1

\* mutant: the last assignment of the swap (159, 163) left out
SwapLost(heap, refs, a, b, k) ==
    [heap EXCEPT ![refs[b + 1]][k] = heap[refs[a + 1]][k]]

\* lines 157-159, 161-163, on the inner lists that refs[a+1], refs[b+1] name
Swap(heap, refs, a, b, k) ==
    LET temp == heap[refs[b + 1]][k]
        h1 == [heap EXCEPT ![refs[b + 1]][k] = heap[refs[a + 1]][k]]
    IN  [h1 EXCEPT ![refs[a + 1]][k] = temp]

\* line 152: list(self.pairings) copies the outer list, not the inner lists
ShallowCopy(refs) == refs

\* line 166
Scores(pop) == [k \in 1 .. Len(pop) |-> get_score(pop[k])]

\* mutant: max(scores) for min(scores)
Max(scores) ==
    CHOOSE v \in {scores[k] : k \in 1 .. Len(scores)} :
        \A k \in 1 .. Len(scores) : v >= scores[k]

\* min(scores)
Min(scores) ==
    CHOOSE v \in {scores[k] : k \in 1 .. Len(scores)} :
        \A k \in 1 .. Len(scores) : v <= scores[k]

\* scores.index(v), 1-based
Index(scores, v) ==
    CHOOSE k \in 1 .. Len(scores) :
        scores[k] = v /\ \A m \in 1 .. k - 1 : scores[m] # v

\* line 150: the population starts with a deep copy of the current best
FirstCandidate(heap, refs) == <<Deref(heap, refs)>>

\* mutant: the reset of line 176 left out
NeverReset(best, last, count) ==
    IF best = last THEN count + 1 ELSE count

\* lines 170-171, 175-176
SameScoreCount(best, last, count) ==
    IF best = last THEN count + 1
    ELSE IF best < last THEN 0
    ELSE count

\* mutant: line 172 tests the counter before line 171 has incremented it
ConvergedLate(best, last, count, conv) ==
    IF best = last /\ count = convergence_threshold THEN TRUE ELSE conv

\* lines 170-173
Converged(best, last, count, conv) ==
    IF best = last /\ count + 1 = convergence_threshold THEN TRUE ELSE conv

\* line 64 (loop entered), lines 149-150
MutateBegin ==
    /\ pc = "run"
    /\ ~converged
    /\ generation_count' = generation_count + 1
    /\ population' = FirstCandidate(cells, pairings)
    /\ c' = 1
    /\ pc' = "mutate"
    /\ UNCHANGED <<cfgvars, classvars, buildvars, framevars, converged,
                   same_score_count, best_score, last_best_score,
                   new_pairings, cells, pairings, i, error>>

\* lines 151-152: one more candidate
CandidateBegin ==
    /\ pc = "mutate"
    /\ c < population_size
    /\ new_pairings' = ShallowCopy(pairings)
    /\ i' = 0
    /\ pc' = "mutate_entry"
    /\ UNCHANGED <<cfgvars, classvars, buildvars, optvars, framevars,
                   population, c, cells, pairings, error>>

\* lines 153-163: one iteration of  for i in range(len(new_pairings))
MutateEntry ==
    /\ pc = "mutate_entry"
    /\ i < Len(new_pairings)
    /\ \E r \in RandomValues :
        IF Mutates(r)
        THEN \E trade_partner \in 0 .. Len(new_pairings) - 1 :
                cells' = Swap(cells, new_pairings, i, trade_partner,
                              Endpoint(relationship))
        ELSE UNCHANGED cells
    /\ i' = i + 1
    /\ UNCHANGED <<cfgvars, classvars, buildvars, optvars, framevars,
                   mutvars, pairings, pc, error>>

\* line 164
CandidateEnd ==
    /\ pc = "mutate_entry"
    /\ i = Len(new_pairings)
    /\ population' = Append(population, Deref(cells, new_pairings))
    /\ new_pairings' = <<>>
    /\ c' = c + 1
    /\ pc' = "mutate"
    /\ UNCHANGED <<cfgvars, classvars, buildvars, optvars, framevars,
                   cells, pairings, i, error>>

\* lines 166-178
Select ==
    /\ pc = "mutate"
    /\ c >= population_size
    /\ LET scores == Scores(population)
           best_score_index == Index(scores, Min(scores))
       IN  /\ cells' = Fresh(population[best_score_index])
           /\ pairings' = Refs(population[best_score_index])
           /\ best_score' = Min(scores)
           /\ same_score_count' =
                  SameScoreCount(Min(scores), last_best_score, same_score_count)
           /\ converged' =
                  Converged(Min(scores), last_best_score, same_score_count,
                            converged)
           /\ last_best_score' = Min(scores)
    /\ population' = <<>>
    /\ c' = 0
    /\ pc' = "run"
    /\ UNCHANGED <<cfgvars, classvars, buildvars, framevars,
                   generation_count, new_pairings, i, error>>

\* lines 64, 66-67: the loop is left
RunConverged ==
    /\ pc = "run"
    /\ converged
    /\ pc' = "generate_frames"
    /\ UNCHANGED <<cfgvars, classvars, buildvars, optvars, mutvars,
                   framevars, cells, pairings, i, error>>

(* --------------------------- generate_frames --------------------------- *)

\* str(n) for n >= 0, as its decimal digits
RECURSIVE str(_)
str(n) == IF n < 10 THEN <<n>> ELSE Append(str(n \div 10), n % 10)

\* lines 197-198, 239-240: while len(number_str) < max_number_len
RECURSIVE ZeroPad(_, _)
ZeroPad(number_str, max_number_len) ==
    IF Len(number_str) < max_number_len
    THEN ZeroPad(<<0>> \o number_str, max_number_len)
    ELSE number_str

\* lines 195-199: the name of the first file
FirstName == ZeroPad(<<0>>, Len(str(number_of_frames)))
\* lines 237-241: the name of the file of frame k
FrameName(k) == ZeroPad(str(k), Len(str(number_of_frames)))
\* mutant: the last file is named after the last index of the loop
LastNameOffByOne == str(number_of_frames - 1)

\* line 245: the name of the last file
LastName == str(number_of_frames)

\* line 224: range(len(start_points)-1), as the 1-based entries it visits
Drawn(n) == 1 .. n - 1

\* lines 205-220, 225-235: the point drawn for entry e in frame k;
\* coordinates are kept as numerators over number_of_frames
Point(prs, e, k) ==
    LET start == prs[e][1]
        end == prs[e][2]
        row == start[1] * number_of_frames + (end[1] - start[1]) * k
        col == start[2] * number_of_frames + (end[2] - start[2]) * k
        start_color == np_im1[start]
        end_color == np_im2[end]
    IN  [entry |-> e,
         location |-> <<col, row>>,
         color |-> (start_color * number_of_frames
                      + (end_color - start_color) * k) \div number_of_frames]

\* lines 222-235: the frame drawn for index k
Frame(prs, k) == [e \in Drawn(Len(prs)) |-> Point(prs, e, k)]

\* lines 193-199: the first image is saved as frame 0
SaveFirst ==
    /\ pc = "generate_frames"
    /\ frames' = Append(frames, [name |-> FirstName, kind |-> "im1",
                                 draws |-> <<>>])
    /\ f' = 1
    /\ pc' = "frame_loop"
    /\ UNCHANGED <<cfgvars, classvars, buildvars, optvars, mutvars,
                   cells, pairings, i, error>>

\* lines 203-242: one iteration of  for i in range(1,self.number_of_frames)
SaveFrame ==
    /\ pc = "frame_loop"
    /\ f < number_of_frames
    /\ frames' = Append(frames, [name |-> FrameName(f), kind |-> "frame",
                                 draws |-> Frame(Deref(cells, pairings), f)])
    /\ f' = f + 1
    /\ UNCHANGED <<cfgvars, classvars, buildvars, optvars, mutvars,
                   cells, pairings, i, pc, error>>

\* lines 245-246: the second image is saved as the last frame
SaveLast ==
    /\ pc = "frame_loop"
    /\ f >= number_of_frames
    /\ frames' = Append(frames, [name |-> LastName, kind |-> "im2",
                                 draws |-> <<>>])
    /\ pc' = "render_video"
    /\ UNCHANGED <<cfgvars, classvars, buildvars, optvars, mutvars,
                   cells, pairings, i, f, error>>

(* ---------------------------- specification ---------------------------- *)

Next ==
    \/ classify_pixels
    \/ BuildBegin
    \/ OneToOneStep
    \/ ManyToOneOuter
    \/ ManyToOneInner
    \/ OneToManyOuter
    \/ OneToManyInner
    \/ BuildFinish
    \/ MutateBegin
    \/ CandidateBegin
    \/ MutateEntry
    \/ CandidateEnd
    \/ Select
    \/ RunConverged
    \/ SaveFirst
    \/ SaveFrame
    \/ SaveLast

\* every optimizer configuration, two frames
Init == InitWith(1 .. MaxPopulation, MutationRates, 1 .. MaxThreshold, {2})

Spec == Init /\ [][Next]_vars

\* the configurations of the fair runs: every one that cannot mutate, and
\* those that can with at most two candidates per generation
InitFair == Init /\ (mutation_rate = 0 \/ population_size <= 2)

\* run() is one thread that keeps running until it returns or raises
FairSpec == InitFair /\ [][Next]_vars /\ WF_vars(Next)

\* every number of frames, the smallest optimizer configurations that mutate
InitFrames == InitWith({2}, MutationRates, {1}, 1 .. MaxFrames)

SpecFrames == InitFrames /\ [][Next]_vars

(* ------------------------------ vocabulary ----------------------------- *)

\* the builder has returned
AfterBuild == pc \in {"run", "mutate", "mutate_entry", "generate_frames",
                      "frame_loop", "render_video"}

\* the foreground sets, as the images define them
Source == wherecolored(np_im1)
Target == wherecolored(np_im2)

Larger(a, b) == IF a >= b THEN a ELSE b

\* self.pairings, by value
Current == Deref(cells, pairings)

\* the number of entries of prs whose endpoint k is the coordinate p
Mult(prs, k, p) == Cardinality({e \in 1 .. Len(prs) : prs[e][k] = p})

\* every coordinate of the set appears exactly once as endpoint k
ExactlyOnce(prs, k, set) == \A p \in set : Mult(prs, k, p) = 1

\* the value of a decimal digit string
RECURSIVE Value(_)
Value(digits) ==
    IF digits = <<>> THEN 0
    ELSE 10 * Value(SubSeq(digits, 1, Len(digits) - 1)) + digits[Len(digits)]

(* -------------------------------- claims ------------------------------- *)

\* C1: once the builder has returned, no step raises best_score: every
\* generation ends with a best cost <= the one it started with.
C1_BestNeverIncreases == [][AfterBuild => best_score' <= best_score]_vars

\* C1 witness: a generation of a population of several candidates has
\* just ended with a strictly lower best cost.
C1_Witness ==
    /\ pc = "run"
    /\ generation_count > 0
    /\ same_score_count = 0
    /\ population_size > 1
    /\ best_score = get_score(Current)

\* C2: for non-empty foreground sets, in every state after the builder has
\* returned (so after every generation too) self.pairings has length
\* max(|source|, |target|) and holds every coordinate of the larger set
\* exactly once (of both sets when they have the same size).
C2_LengthAndCoverage ==
    (AfterBuild /\ Source # {} /\ Target # {}) =>
        /\ Len(Current) = Larger(Cardinality(Source), Cardinality(Target))
        /\ Cardinality(Source) >= Cardinality(Target)
              => ExactlyOnce(Current, 1, Source)
        /\ Cardinality(Target) >= Cardinality(Source)
              => ExactlyOnce(Current, 2, Target)

\* C2 witness: a generation has adopted a mutated candidate of a
\* correspondence between sets of different sizes.
C2_Witness ==
    /\ pc = "run"
    /\ Cardinality(Source) > Cardinality(Target)
    /\ Cardinality(Target) > 1
    /\ generation_count > 0
    /\ same_score_count = 0

\* the smaller foreground set, and the endpoint of an entry it occupies
SmallEnd == IF Cardinality(Source) < Cardinality(Target) THEN 1 ELSE 2
Small == IF Cardinality(Source) < Cardinality(Target) THEN Source ELSE Target
Big == IF Cardinality(Source) < Cardinality(Target) THEN Target ELSE Source

\* r coordinates of the smaller set have q+1 entries, the others q
Distributed(prs) ==
    LET q == Cardinality(Big) \div Cardinality(Small)
        r == Cardinality(Big) % Cardinality(Small)
    IN  /\ Cardinality({p \in Small : Mult(prs, SmallEnd, p) = q + 1}) = r
        /\ Cardinality({p \in Small : Mult(prs, SmallEnd, p) = q})
              = Cardinality(Small) - r

Unequal ==
    /\ Source # {}
    /\ Target # {}
    /\ Cardinality(Source) # Cardinality(Target)

\* C3: for non-empty foreground sets of different sizes, self.pairings has
\* the q / q+1 distribution whenever the builder has returned, and no later
\* step (a swap, a selection) changes the number of entries of any
\* coordinate of the smaller set.
C3_Multiplicity ==
    /\ []((AfterBuild /\ Unequal) => Distributed(Current))
    /\ [][(AfterBuild /\ Unequal) =>
            \A p \in Small :
                Mult(Deref(cells', pairings'), SmallEnd, p)
                    = Mult(Current, SmallEnd, p)]_vars

\* C3 witness: 3 source and 2 target coordinates (q = 1, r = 1), after a
\* generation that adopted a mutated candidate.
C3_Witness ==
    /\ pc = "run"
    /\ Cardinality(Source) = 3
    /\ Cardinality(Target) = 2
    /\ generation_count > 0
    /\ same_score_count = 0
    /\ Distributed(Current)

\* C4: for non-empty foreground sets the builder raises nothing, and has
\* emptied both pools when it returns.
C4_BuilderCannotFail ==
    (Source # {} /\ Target # {}) =>
        /\ error = "none"
        /\ AfterBuild => (in_pixels = <<>> /\ out_pixels = <<>>)

\* a generation ends: lines 166-178 have run
Generation == pc = "mutate" /\ pc' = "run"

\* C5: a generation that ends with a best cost strictly below the one
\* before it sets same_score_count to 0, any other generation adds exactly
\* 1 to it, and nothing else changes it; it is 0 before the first one.
C5_Stagnation ==
    /\ [](generation_count = 0 => same_score_count = 0)
    /\ [][Generation =>
            /\ best_score' < best_score => same_score_count' = 0
            /\ ~(best_score' < best_score)
                  => same_score_count' = same_score_count + 1]_vars
    /\ [][~Generation => same_score_count' = same_score_count]_vars

\* C5 witness: some generation improved the cost, and every generation
\* since then (at least one) did not.
C5_Witness ==
    /\ pc = "run"
    /\ same_score_count >= 1
    /\ generation_count > same_score_count

\* no candidate can differ from the current best
NoImprovement == mutation_rate = 0 \/ Len(pairings) <= 1

\* C6: converged is set exactly when same_score_count reaches
\* convergence_threshold: before that the counter is below the threshold,
\* converged stays set, and no generation starts once it is set.  When no
\* candidate can differ from the current best, every generation is a tie,
\* the loop is left eventually, and generation_count is then the threshold.
C6_Convergence ==
    /\ [](converged => same_score_count = convergence_threshold)
    /\ []((AfterBuild /\ ~converged)
            => same_score_count < convergence_threshold)
    /\ [][converged => converged']_vars
    /\ [][generation_count' # generation_count => ~converged]_vars
    /\ []((pc = "run" /\ NoImprovement)
            => same_score_count = generation_count)
    /\ []((converged /\ NoImprovement)
            => generation_count = convergence_threshold)
    /\ (pc = "run" /\ NoImprovement) ~> converged

\* C6 witness: with mutation_rate 0 and several entries, the loop has been
\* left after convergence_threshold > 1 generations.
C6_Witness ==
    /\ pc = "generate_frames"
    /\ converged
    /\ mutation_rate = 0
    /\ Len(pairings) > 1
    /\ convergence_threshold > 1
    /\ generation_count = convergence_threshold

\* the files written so far have the names of the indices 0, 1, 2, ... in
\* this order, and no two of them have the same name
InOrder ==
    /\ \A k \in 1 .. Len(frames) : Value(frames[k].name) = k - 1
    /\ \A k, m \in 1 .. Len(frames) :
          frames[k].name = frames[m].name => k = m

\* C7: generate_frames writes one file per index 0..number_of_frames, in
\* increasing order and under pairwise different names (so none is
\* overwritten); when it returns there are number_of_frames+1 of them, the
\* first is the source image and the last is the target image.
C7_Frames ==
    /\ InOrder
    /\ pc = "render_video" =>
          /\ Len(frames) = number_of_frames + 1
          /\ frames[1].kind = "im1"
          /\ frames[number_of_frames + 1].kind = "im2"
          /\ \A k \in 2 .. number_of_frames : frames[k].kind = "frame"

\* C7 witness: all frames of a run whose indices have one and two digits.
C7_Witness ==
    /\ pc = "render_video"
    /\ number_of_frames > 10
    /\ Len(frames) = number_of_frames + 1
    /\ Len(frames[1].name) = 2

\* C8: with an empty foreground set the run stops at classification: the
\* builder does not return, no generation runs and no frame is written.
C8_AbortsOnEmptyForeground ==
    (Source = {} \/ Target = {}) =>
        /\ ~AfterBuild
        /\ generation_count = 0
        /\ frames = <<>>

\* C9: while the candidates of a generation are produced, the current best
\* keeps the value it had when the generation began (the first candidate),
\* and every candidate starts from that value.
C9_IndependentCopies ==
    pc \in {"mutate", "mutate_entry"} =>
        /\ Current = population[1]
        /\ (pc = "mutate_entry" /\ i = 0)
              => Deref(cells, new_pairings) = population[1]

\* C10: every intermediate frame holds one point per entry of the final
\* correspondence, at the position and color of weight k/number_of_frames.
C10_EveryEntryDrawn ==
    \A k \in 1 .. Len(frames) :
        frames[k].kind = "frame" =>
            /\ DOMAIN frames[k].draws = 1 .. Len(pairings)
            /\ \A e \in DOMAIN frames[k].draws :
                  frames[k].draws[e] = Point(Current, e, k - 1)

====
